---- MODULE Spec2Model ----
(***************************************************************************)
(* The Tauri command bridge of builds/tauri/src/main.rs: four commands     *)
(* (get_platform, get_version, read_file, write_file) registered with      *)
(* generate_handler!, invoked by the front-end and served by the host.     *)
(* The file commands are modelled at the granularity of the system calls   *)
(* std::fs::read_to_string and std::fs::write make (open, read/write of a  *)
(* chunk, return), so that invocations served concurrently interleave.     *)
(***************************************************************************)
EXTENDS Integers, Sequences, FiniteSets, TLC

\* ---------------------------------------------------------------- bounds
MaxLen == 2        \* longest content string, in bytes

\* ---------------------------------------------------------------- values
NUL == 0           \* the byte the OS fills a hole with when a write lands past EOF
BadByte == 255     \* a byte that is never valid UTF-8
Chars == {1, 2}    \* the text bytes contents are made of

Workers == {"w1", "w2"}

\* paths the front-end may name; the parent directory of "nodir/f" is missing
Paths == {"p", "q", "nodir/f"}
Reachable == {"p", "q"}

\* a path of the filesystem: no file, or a regular file with its bytes
Absent == [ex |-> FALSE, data |-> <<>>]
File(d) == [ex |-> TRUE, data |-> d]

\* an argument of the payload: not present, not a JSON string, or a string
Missing == [k |-> "missing", s |-> "", t |-> <<>>]
WrongType == [k |-> "wrongtype", s |-> "", t |-> <<>>]
PathArg(p) == [k |-> "str", s |-> p, t |-> <<>>]
TextArg(c) == [k |-> "str", s |-> "", t |-> c]
NoValue == "novalue"
Unit == "null"              \* serialisation of ()

\* the contents the front-end writes: up to MaxLen times the same text byte
Contents == {[i \in 1..n |-> c] : n \in 0..MaxLen, c \in Chars}

\* values of std::env::consts::OS on the desktop targets
KnownOS == {"linux", "macos", "windows"}
Fallback == "1.0.0"
BuildVersions == {NoValue, "0.1.0"}

RegisteredCommands == {"get_platform", "get_version", "read_file", "write_file"}
UnknownNames == {"delete_file"}

\* error strings that cross the boundary
MsgNotFound == "command not found"
MsgMissingKey == "invalid args: missing required key"
MsgInvalidType == "invalid args: invalid type, expected a string"
MsgNoEnt == "No such file or directory (os error 2)"
MsgNotUtf8 == "stream did not contain valid UTF-8"
MsgNoSpace == "No space left on device (os error 28)"

UnknownCommand == {MsgNotFound}
ArgumentError == {MsgMissingKey, MsgInvalidType}
IOError == {MsgNoEnt, MsgNotUtf8, MsgNoSpace}

\* Result<_, String> as it is serialised: val for a name, message or unit,
\* text for file content
Ok(v) == [tag |-> "Ok", val |-> v, text |-> <<>>]
OkText(c) == [tag |-> "Ok", val |-> "", text |-> c]
Err(m) == [tag |-> "Err", val |-> m, text |-> <<>>]

VARIABLES
    os,            \* std::env::consts::OS of the build
    buildVersion,  \* option_env!("CARGO_PKG_VERSION") of the build
    registry,      \* command names the invoke handler resolves
    host,          \* "running" while the event loop of run() is alive
    fs,            \* the filesystem: path -> bytes of the file, or Absent
    wk,            \* per worker: the invocation it serves
    settled        \* history: path -> {C} when the last write to it is a write_file
                   \* of C that returned success with no other write in between

vars == <<os, buildVersion, registry, host, fs, wk, settled>>

\* ---------------------------------------------------------------- requests
\* the invocations the front-end issues: every command, every way an argument
\* can be wrong, reads of every path, writes of every content to path "p"
Requests ==
    [name : {"get_platform", "get_version"}, path : {Missing}, content : {Missing}]
    \cup [name : UnknownNames, path : {PathArg("p")}, content : {TextArg(<<1>>)}]
    \cup [name : {"read_file"}, path : {PathArg(p) : p \in Paths} \cup {Missing, WrongType},
          content : {Missing}]
    \cup [name : {"write_file"}, path : {PathArg("p")},
          content : {TextArg(c) : c \in Contents} \cup {Missing, WrongType}]
    \cup [name : {"write_file"}, path : {PathArg("nodir/f"), Missing, WrongType},
          content : {TextArg(<<2>>)}]

\* the queries, one read and one write
FewRequests ==
    {r \in Requests :
        \/ r.name \in {"get_platform", "get_version"}
        \/ r.name = "read_file" /\ r.path = PathArg("p")
        \/ r.name = "write_file" /\ r.path = PathArg("p") /\ r.content = TextArg(<<1>>)}

NoRequest == [name |-> NoValue, path |-> Missing, content |-> Missing]

\* history kept per invocation of a file command, from its open on:
\*   dist  the workers that wrote to its path since
\*   seen  (read_file with exp # {}, until it returns) the contents of the
\*         write_file invocations that did so: none, one, or Contents for several
\*   exp   (read_file) settled[path] at the open
IdleWorker ==
    [pc |-> "idle", req |-> NoRequest, ran |-> FALSE, off |-> 0, buf |-> <<>>,
     resp |-> <<>>, dist |-> {}, exp |-> {}, seen |-> {}]

\* ---------------------------------------------------------------- pure parts
Max(a, b) == IF a >= b THEN a ELSE b

get_platform == os

\* the fallback left out: an unset version comes back as the empty string
get_version_unset == IF buildVersion = NoValue THEN "" ELSE buildVersion

get_version == IF buildVersion = NoValue THEN Fallback ELSE buildVersion

\* a match whose default arm calls the last handler instead of rejecting
ResolveFallback(name) == IF name \in registry THEN name ELSE "write_file"

\* the match on the command name that generate_handler! expands to
Resolve(name) == IF name \in registry THEN name ELSE NoValue

\* only the first parameter is deserialised, an absent content reads as ""
ArgsErrorPathOnly(r) ==
    IF r.name \in {"read_file", "write_file"}
    THEN (IF r.path.k = "missing" THEN MsgMissingKey
          ELSE IF r.path.k = "wrongtype" THEN MsgInvalidType ELSE NoValue)
    ELSE NoValue

\* deserialisation of the arguments into the handler's parameters:
\* the error of the first parameter that does not deserialise, or NoValue
ArgsError(r) ==
    LET bad(a) == IF a.k = "missing" THEN MsgMissingKey
                  ELSE IF a.k = "wrongtype" THEN MsgInvalidType ELSE NoValue
    IN  CASE r.name = "read_file" -> bad(r.path)
          [] r.name = "write_file" ->
                IF bad(r.path) # NoValue THEN bad(r.path) ELSE bad(r.content)
          [] OTHER -> NoValue

\* a missing file opened as if it were empty
OpenErrorNever(f) == NoValue

\* File::open for reading: the error, or NoValue when the file is there
OpenError(f) == IF f.ex THEN NoValue ELSE MsgNoEnt

\* String::from_utf8 inside read_to_string
Utf8Valid(bytes) == \A i \in 1..Len(bytes) : bytes[i] # BadByte

\* the file opened without O_TRUNC: existing bytes stay
CreateKeep(f) == IF f.ex THEN f ELSE File(<<>>)

\* File::create: O_CREAT | O_TRUNC, the file exists and is empty afterwards
Create(f) == File(<<>>)

\* every write() lands at the start of the file, the offset is not advanced
WriteAtStart(f, off, data) ==
    [i \in 1..Max(Len(f), Len(data)) |-> IF i <= Len(data) THEN data[i] ELSE f[i]]

\* the file opened with O_APPEND: every write() lands at the end of the file
WriteAppend(f, off, data) == f \o data

\* write() of data at offset off into the bytes f (a hole reads as NUL)
WriteAt(f, off, data) ==
    [i \in 1..Max(Len(f), off + Len(data)) |->
        IF i > off /\ i <= off + Len(data) THEN data[i - off]
        ELSE IF i <= Len(f) THEN f[i] ELSE NUL]

\* a write step of w (serving write_file of content c) on path p is noted by
\* the other invocations on p that are in progress or not yet received
Touch(ws, w, p, c) ==
    [v \in Workers |->
        IF v # w /\ ws[v].ran /\ ws[v].req.path.s = p
           /\ ws[v].pc \in {"w_write", "r_read", "done"}
        THEN [ws[v] EXCEPT !.dist = @ \cup {w},
                           !.seen = IF ws[v].pc # "r_read" \/ ws[v].exp = {} THEN @
                                    ELSE IF @ \subseteq {c} THEN {c} ELSE Contents]
        ELSE ws[v]]

\* an Err unwrapped instead of returned: the panic takes the host down
AnswerOrPanic(ws, w, r) ==
    /\ wk' = [ws EXCEPT ![w].resp = Append(@, r), ![w].pc = "done"]
    /\ host' = IF r.tag = "Err" THEN "terminated" ELSE host
    /\ registry' = registry

\* the response sent without returning: the handler goes on and answers again
AnswerNoReturn(ws, w, r) ==
    /\ wk' = [ws EXCEPT ![w].resp = Append(@, r)]
    /\ host' = host
    /\ registry' = registry

\* the result is handed to the resolver as the one response of the request;
\* an Err is a value like any other, the event loop keeps running
Answer(ws, w, r) ==
    /\ wk' = [ws EXCEPT ![w].resp = Append(@, r), ![w].pc = "done"]
    /\ host' = host
    /\ registry' = registry

\* ---------------------------------------------------------------- actions
\* the host after startup, of any build: "p" is absent or holds text, "q" holds
\* bytes that are not text, nothing is in flight
InitBuilds ==
    /\ os \in KnownOS
    /\ buildVersion \in BuildVersions
    /\ registry = RegisteredCommands
    /\ host = "running"
    /\ \E f \in {Absent, File(<<1, 1>>)} :
          fs = [p \in Paths |-> IF p = "p" THEN f
                                ELSE IF p = "q" THEN File(<<BadByte>>) ELSE Absent]
    /\ wk = [w \in Workers |-> IdleWorker]
    /\ settled = [p \in Paths |-> {}]

\* the host after startup, of a Linux build that was given no version
Init ==
    /\ InitBuilds
    /\ os = "linux"
    /\ buildVersion = NoValue

\* the front-end issues the invocation r, a worker of the host takes it
Issue(w, r) ==
    /\ host = "running"
    /\ wk[w].pc = "idle"
    /\ wk' = [wk EXCEPT ![w] = [IdleWorker EXCEPT !.pc = "dispatch", !.req = r]]
    /\ UNCHANGED <<os, buildVersion, registry, host, fs, settled>>

Invoke(w) == \E r \in Requests : Issue(w, r)

InvokeFew(w) == \E r \in FewRequests : Issue(w, r)

\* the invoke handler built by generate_handler!: resolve, deserialise, call
Dispatch(w) ==
    /\ host = "running"
    /\ wk[w].pc = "dispatch"
    /\ LET r == wk[w].req
           h == Resolve(r.name)
           a == [r EXCEPT !.name = h]
       IN IF h = NoValue THEN Answer(wk, w, Err(MsgNotFound))
          ELSE IF ArgsError(a) # NoValue THEN Answer(wk, w, Err(ArgsError(a)))
          ELSE LET ws == [wk EXCEPT ![w].ran = TRUE, ![w].req = a] IN
               CASE h = "get_platform" -> Answer(ws, w, Ok(get_platform))
                 [] h = "get_version" -> Answer(ws, w, Ok(get_version))
                 [] h = "read_file" ->
                       /\ wk' = [ws EXCEPT ![w].pc = "r_open"]
                       /\ UNCHANGED <<host, registry>>
                 [] h = "write_file" ->
                       /\ wk' = [ws EXCEPT ![w].pc = "w_open"]
                       /\ UNCHANGED <<host, registry>>
    /\ UNCHANGED <<os, buildVersion, fs, settled>>

\* read_file: File::open(path)
ReadOpen(w) ==
    /\ host = "running"
    /\ wk[w].pc = "r_open"
    /\ LET p == wk[w].req.path.s IN
         IF OpenError(fs[p]) # NoValue THEN Answer(wk, w, Err(OpenError(fs[p])))
         ELSE /\ wk' = [wk EXCEPT ![w].pc = "r_read", ![w].off = 0, ![w].buf = <<>>,
                                  ![w].dist = {}, ![w].seen = {},
                                  ![w].exp = settled[p]]
              /\ UNCHANGED <<host, registry>>
    /\ UNCHANGED <<os, buildVersion, fs, settled>>

\* read_file: one read() of the loop in read_to_string, n bytes at the offset
ReadChunk(w) ==
    /\ host = "running"
    /\ wk[w].pc = "r_read"
    /\ LET f == fs[wk[w].req.path.s].data IN
         /\ wk[w].off < Len(f)
         /\ \E n \in 1..(Len(f) - wk[w].off) :
               wk' = [wk EXCEPT ![w].buf = @ \o SubSeq(f, wk[w].off + 1, wk[w].off + n),
                                ![w].off = @ + n]
    /\ UNCHANGED <<os, buildVersion, registry, host, fs, settled>>

\* a single read() instead of the loop up to end of file
ReadEndShort(w) ==
    /\ host = "running"
    /\ wk[w].pc = "r_read"
    /\ wk[w].off > 0 \/ Len(fs[wk[w].req.path.s].data) = 0
    /\ Answer([wk EXCEPT ![w].seen = {}], w, OkText(wk[w].buf))
    /\ UNCHANGED <<os, buildVersion, fs, settled>>

\* read_file: read() returns 0 at end of file; validate, convert, respond
ReadEnd(w) ==
    /\ host = "running"
    /\ wk[w].pc = "r_read"
    /\ wk[w].off >= Len(fs[wk[w].req.path.s].data)
    /\ LET ws == [wk EXCEPT ![w].seen = {}] IN
         IF Utf8Valid(wk[w].buf) THEN Answer(ws, w, OkText(wk[w].buf))
         ELSE Answer(ws, w, Err(MsgNotUtf8))
    /\ UNCHANGED <<os, buildVersion, fs, settled>>

\* write_file: File::create(path), which creates or truncates
WriteOpen(w) ==
    /\ host = "running"
    /\ wk[w].pc = "w_open"
    /\ LET p == wk[w].req.path.s IN
         IF p \notin Reachable
         THEN Answer(wk, w, Err(MsgNoEnt)) /\ UNCHANGED <<fs, settled>>
         ELSE /\ fs' = [fs EXCEPT ![p] = Create(@)]
              /\ wk' = [Touch(wk, w, p, wk[w].req.content.t)
                           EXCEPT ![w].pc = "w_write", ![w].off = 0, ![w].dist = {}]
              /\ settled' = [settled EXCEPT ![p] = {}]
              /\ UNCHANGED <<host, registry>>
    /\ UNCHANGED <<os, buildVersion>>

\* write_file: one write() of the loop in write_all, n bytes at the offset
WriteChunk(w) ==
    /\ host = "running"
    /\ wk[w].pc = "w_write"
    /\ LET p == wk[w].req.path.s
           c == wk[w].req.content.t IN
         /\ wk[w].off < Len(c)
         /\ \E n \in 1..(Len(c) - wk[w].off) :
               /\ fs' = [fs EXCEPT ![p].data =
                            WriteAt(@, wk[w].off, SubSeq(c, wk[w].off + 1, wk[w].off + n))]
               /\ wk' = [Touch(wk, w, p, c) EXCEPT ![w].off = @ + n]
         /\ settled' = [settled EXCEPT ![p] = {}]
    /\ UNCHANGED <<os, buildVersion, registry, host>>

\* write_file: a write() fails (device full); the bytes written so far stay
WriteFail(w) ==
    /\ host = "running"
    /\ wk[w].pc = "w_write"
    /\ wk[w].off < Len(wk[w].req.content.t)
    /\ Answer(wk, w, Err(MsgNoSpace))
    /\ UNCHANGED <<os, buildVersion, fs, settled>>

\* write_file: everything is written, Ok(()) is returned
WriteEnd(w) ==
    /\ host = "running"
    /\ wk[w].pc = "w_write"
    /\ wk[w].off >= Len(wk[w].req.content.t)
    /\ Answer(wk, w, Ok(Unit))
    /\ settled' = [settled EXCEPT ![wk[w].req.path.s] =
                      IF wk[w].dist = {} THEN {wk[w].req.content.t} ELSE @]
    /\ UNCHANGED <<os, buildVersion, fs>>

\* the front-end receives the response; the worker is free again
Receive(w) ==
    /\ host = "running"
    /\ wk[w].pc = "done"
    /\ wk' = [wk EXCEPT ![w] = IdleWorker]
    /\ UNCHANGED <<os, buildVersion, registry, host, fs, settled>>

\* a step of the invocation worker w serves
Step(w) ==
    \/ Dispatch(w)
    \/ ReadOpen(w)
    \/ ReadChunk(w)
    \/ ReadEnd(w)
    \/ WriteOpen(w)
    \/ WriteChunk(w)
    \/ WriteFail(w)
    \/ WriteEnd(w)

Next ==
    \E w \in Workers :
        \/ Invoke(w)
        \/ Step(w)
        \/ Receive(w)

Spec == Init /\ [][Next]_vars

\* every build, serving the invocations of FewRequests
NextBuilds ==
    \E w \in Workers :
        \/ InvokeFew(w)
        \/ Step(w)
        \/ Receive(w)

SpecBuilds == InitBuilds /\ [][NextBuilds]_vars

\* ---------------------------------------------------------------- properties
Reading(w, p) == wk[w].ran /\ wk[w].req.name = "read_file" /\ wk[w].req.path.s = p
Writing(w, p) == wk[w].ran /\ wk[w].req.name = "write_file" /\ wk[w].req.path.s = p
Returned(w) == wk[w].pc = "done"
BadArgs(r) ==
    \/ r.name = "read_file" /\ r.path.k # "str"
    \/ r.name = "write_file" /\ (r.path.k # "str" \/ r.content.k # "str")
ErrorMessages == UnknownCommand \cup ArgumentError \cup IOError

\* C1: a read_file(P) that is opened after a write_file(P, C) has returned
\* success, with no other write to P since that write began and none until the
\* read returns, returns success with exactly C.
RoundTrip ==
    \A r \in Workers : \A p \in Paths :
        (Reading(r, p) /\ Returned(r) /\ wk[r].exp # {} /\ wk[r].dist = {})
            => \E c \in wk[r].exp : wk[r].resp = <<OkText(c)>>

RoundTripWitness ==
    \E r \in Workers :
        /\ Reading(r, "p") /\ Returned(r) /\ wk[r].dist = {}
        /\ wk[r].exp = {<<2, 2>>}
        /\ wk[r].resp = <<OkText(<<2, 2>>)>>

\* C2 as stated: once two write_file invocations to the same path, with no
\* third writer involved, have both returned success, the file holds the
\* content of one of them in full.
ConcurrentWritesOneWins ==
    \A u \in Workers : \A v \in Workers \ {u} : \A p \in Paths :
        (/\ Writing(u, p) /\ Returned(u) /\ wk[u].resp = <<Ok(Unit)>>
         /\ Writing(v, p) /\ Returned(v) /\ wk[v].resp = <<Ok(Unit)>>
         /\ wk[u].dist \subseteq {v} /\ wk[v].dist \subseteq {u})
            => fs[p].data \in {wk[u].req.content.t, wk[v].req.content.t}

\* C2 amended: once both have returned success the file has the length of one
\* of the two contents and every byte of it is the byte one of the two contents
\* has at that position, or the zero byte of a hole; it is one content in full
\* when no step of the other invocation came after that one's open.
ConcurrentWritesBytewise ==
    \A u \in Workers : \A v \in Workers \ {u} : \A p \in Paths :
        (/\ Writing(u, p) /\ Returned(u) /\ wk[u].resp = <<Ok(Unit)>>
         /\ Writing(v, p) /\ Returned(v) /\ wk[v].resp = <<Ok(Unit)>>
         /\ wk[u].dist \subseteq {v} /\ wk[v].dist \subseteq {u})
            => LET cu == wk[u].req.content.t
                   cv == wk[v].req.content.t
                   f == fs[p].data
               IN /\ fs[p].ex
                  /\ Len(f) \in {Len(cu), Len(cv)}
                  /\ \A i \in 1..Len(f) :
                        \/ f[i] = NUL
                        \/ i <= Len(cu) /\ f[i] = cu[i]
                        \/ i <= Len(cv) /\ f[i] = cv[i]
                  /\ wk[u].dist = {} => f = cu

ConcurrentWritesWitness ==
    \E u \in Workers : \E v \in Workers \ {u} :
        /\ Writing(u, "p") /\ Returned(u) /\ wk[u].resp = <<Ok(Unit)>>
        /\ Writing(v, "p") /\ Returned(v) /\ wk[v].resp = <<Ok(Unit)>>
        /\ wk[u].dist = {v} /\ wk[v].dist = {u}
        /\ wk[u].req.content.t = <<1, 1>> /\ wk[v].req.content.t = <<2>>
        /\ fs["p"].data = <<2, 1>>

\* C3: the dispatch of a command name that is not registered answers
\* "command not found", calls no handler and leaves the filesystem and the
\* registry as they are.
UnknownCommandRejected ==
    [][\A w \in Workers :
          (/\ wk[w].pc = "dispatch"
           /\ wk[w].req.name \notin RegisteredCommands
           /\ wk'[w] # wk[w])
             => /\ wk'[w].pc = "done"
                /\ wk'[w].resp = <<Err(MsgNotFound)>>
                /\ ~wk'[w].ran
                /\ fs' = fs
                /\ registry' = registry]_vars

UnknownCommandWitness ==
    \E w \in Workers :
        /\ Returned(w) /\ wk[w].req.name = "delete_file" /\ ~wk[w].ran
        /\ wk[w].resp = <<Err(MsgNotFound)>>
        /\ fs["p"] = File(<<1, 1>>)

\* C4: the dispatch of a registered command with a required argument missing
\* or of the wrong type answers an ArgumentError, never calls the handler and
\* leaves the filesystem as it is.
ArgumentErrorRejected ==
    [][\A w \in Workers :
          (/\ wk[w].pc = "dispatch"
           /\ wk[w].req.name \in RegisteredCommands
           /\ BadArgs(wk[w].req)
           /\ wk'[w] # wk[w])
             => /\ wk'[w].pc = "done"
                /\ Len(wk'[w].resp) = 1
                /\ wk'[w].resp[1].tag = "Err"
                /\ wk'[w].resp[1].val \in ArgumentError
                /\ ~wk'[w].ran
                /\ fs' = fs]_vars

ArgumentErrorWitness ==
    \E w \in Workers :
        /\ Returned(w) /\ ~wk[w].ran
        /\ wk[w].req.name = "write_file"
        /\ wk[w].req.path = PathArg("p") /\ wk[w].req.content = Missing
        /\ wk[w].resp = <<Err(MsgMissingKey)>>
        /\ fs["p"] = File(<<1, 1>>)

\* C5: read_file on a path where no file exists answers an IOError message,
\* never a success, creates or changes no file and leaves the host running.
ReadMissingFails ==
    [][\A w \in Workers :
          (/\ wk[w].pc = "r_open"
           /\ ~fs[wk[w].req.path.s].ex
           /\ wk'[w] # wk[w])
             => /\ wk'[w].pc = "done"
                /\ Len(wk'[w].resp) = 1
                /\ wk'[w].resp[1].tag = "Err"
                /\ wk'[w].resp[1].val \in IOError
                /\ fs' = fs
                /\ host' = "running"]_vars

ReadMissingWitness ==
    \E w \in Workers :
        /\ Reading(w, "p") /\ Returned(w)
        /\ ~fs["p"].ex
        /\ wk[w].resp = <<Err(MsgNoEnt)>>
        /\ host = "running"

ExactlyOneResponse ==
    \A w \in Workers :
        /\ Len(wk[w].resp) <= 1
        /\ Returned(w) <=> Len(wk[w].resp) = 1
        /\ Len(wk[w].resp) = 1 =>
              \/ wk[w].resp[1].tag = "Ok" /\ wk[w].resp[1].val \notin ErrorMessages
              \/ /\ wk[w].resp[1].tag = "Err"
                 /\ wk[w].resp[1].val \in ErrorMessages
                 /\ wk[w].resp[1].text = <<>>

ExactlyOneResponseWitness ==
    \E w \in Workers : \E v \in Workers \ {w} :
        /\ Returned(w) /\ wk[w].resp = <<OkText(<<2, 1>>)>>
        /\ Returned(v) /\ wk[v].resp = <<Err(MsgNotUtf8)>>

\* C8 as stated: when write_file(P, C) returns success, P exists and holds
\* exactly C.
WriteReplacesContent ==
    [][\A w \in Workers :
          (/\ wk[w].pc = "w_write"
           /\ wk'[w].pc = "done"
           /\ wk'[w].resp = <<Ok(Unit)>>)
             => fs'[wk[w].req.path.s] = File(wk[w].req.content.t)]_vars

\* C8 amended: when write_file(P, C) returns success and no other invocation
\* wrote to P since this one opened it, P exists and holds exactly C; and no
\* step of a write_file(P, C), overlapped or not, changes a file other than P.
WriteReplacesWhenAlone ==
    [][\A w \in Workers :
          /\ (/\ wk[w].pc = "w_write"
              /\ wk'[w].pc = "done"
              /\ wk'[w].resp = <<Ok(Unit)>>
              /\ wk[w].dist = {})
                => fs'[wk[w].req.path.s] = File(wk[w].req.content.t)
          /\ (/\ wk[w].ran /\ wk[w].req.name = "write_file"
              /\ wk'[w] # wk[w])
                => \A q \in Paths \ {wk[w].req.path.s} : fs'[q] = fs[q]]_vars

WriteReplacesWitness ==
    \E w \in Workers :
        /\ Writing(w, "p") /\ Returned(w) /\ wk[w].resp = <<Ok(Unit)>>
        /\ wk[w].dist = {}
        /\ wk[w].req.content.t = <<2>>
        /\ fs["p"] = File(<<2>>)
        /\ fs["q"] = File(<<BadByte>>)

\* C9: the dispatch of get_platform or get_version answers a success and
\* changes nothing else: get_platform a name of the known-OS set, get_version
\* a non-empty string, "1.0.0" when the build supplied no version.
PureQueries ==
    [][\A w \in Workers :
          (/\ wk[w].pc = "dispatch"
           /\ wk[w].req.name \in {"get_platform", "get_version"}
           /\ wk'[w] # wk[w])
             => /\ wk'[w].pc = "done"
                /\ Len(wk'[w].resp) = 1
                /\ wk'[w].resp[1].tag = "Ok"
                /\ wk[w].req.name = "get_platform"
                      => wk'[w].resp[1].val \in {"linux", "macos", "windows"}
                /\ wk[w].req.name = "get_version"
                      => /\ wk'[w].resp[1].val # ""
                         /\ buildVersion = NoValue => wk'[w].resp[1].val = "1.0.0"
                /\ \A v \in Workers \ {w} : wk'[v] = wk[v]
                /\ UNCHANGED <<os, buildVersion, registry, host, fs>>]_vars

PureQueriesWitness ==
    \E w \in Workers : \E v \in Workers \ {w} :
        /\ Returned(w) /\ wk[w].req.name = "get_version"
        /\ buildVersion = NoValue /\ wk[w].resp = <<Ok("1.0.0")>>
        /\ Returned(v) /\ wk[v].req.name = "get_platform"
        /\ wk[v].resp = <<Ok(os)>>

\* C10 as stated: a successful read_file(P), opened when P held the content
\* Cold of a completed write_file and overlapped by writes of at most one
\* content Cnew, returns Cold in full or Cnew in full.
ReadAllOrNothing ==
    [][\A r \in Workers :
          (/\ wk[r].pc = "r_read"
           /\ wk'[r].pc = "done"
           /\ wk'[r].resp[1].tag = "Ok"
           /\ wk[r].exp # {}
           /\ wk[r].seen # Contents)
             => wk'[r].resp[1].text \in wk[r].exp \cup wk[r].seen]_vars

\* C10 amended: a successful read_file(P) that no write to P has overlapped
\* returns the full content of P.
ReadFullWhenAlone ==
    \A r \in Workers : \A p \in Paths :
        (/\ Reading(r, p) /\ Returned(r)
         /\ wk[r].resp[1].tag = "Ok"
         /\ wk[r].dist = {})
            => fs[p].ex /\ wk[r].resp = <<OkText(fs[p].data)>>

ReadFullWitness ==
    \E r \in Workers : \E v \in Workers \ {r} :
        /\ Reading(r, "p") /\ Returned(r) /\ wk[r].dist = {}
        /\ wk[r].resp = <<OkText(<<2, 1>>)>>
        /\ wk[v].pc = "w_open" /\ wk[v].req.path.s = "p"
====
